---- MODULE Spec2Model ----
(***************************************************************************)
(* Request dispatch engine of claude-code-proxy.                           *)
(*                                                                         *)
(*   WorkerPool (src/src/lib/worker-pool.ts) on top of a p-queue, with     *)
(*   the child supervisor runClaude (src/unnamed/part_006, second copy)    *)
(*   and the retry policy of errors.ts: specification Spec.                *)
(*   SessionStore (src/src/lib/session-store.ts, SQLite-backed class):     *)
(*   its locks in specification LockSpec, its sessions in StoreSpec.       *)
(*   The routes POST /api/run and POST /api/tasks over the session store   *)
(*   (src/unnamed/part_002, src/src/routes/tasks.ts): RouteSpec.           *)
(*   TaskStore (src/unnamed/part_004) and executeTask over the pool:       *)
(*   TaskSpec. One runClaude call with every exit of its child:            *)
(*   RunnerSpec; the stdout handler of a streaming run: StreamSpec.        *)
(*   The pool with its timers and child exits under weak fairness:         *)
(*   LiveSpec. The locks of the in-memory SessionStore class of            *)
(*   session-store.ts, with holders that release: MemLockSpec.             *)
(*                                                                         *)
(* One step of the model is one macrotask of the Node event loop (a call   *)
(* from a route, a timer, a child event, an abort event) together with     *)
(* all the promise continuations it triggers.                              *)
(***************************************************************************)
EXTENDS Integers, Sequences, FiniteSets, TLC

\* ------------------------------------------------------------------ bounds
NumSubs == 3          \* submit() calls made on the pool
Concurrency == 1      \* config.workerConcurrency
MaxQueueSize == 1     \* config.maxQueueSize
NumCallers == 3       \* callers of acquireLock
NumStoreCallers == 1  \* callers of acquireLock in StoreSpec
NumRequests == 2      \* requests made to the routes in RouteSpec
NumTasks == 2         \* tasks created in TaskSpec
MaxStderrPhrases == 3 \* phrases a child prints on stderr in RunnerSpec
MaxExitCode == 1      \* exit codes of a child in RunnerSpec: 0 .. MaxExitCode
NumLiveSubs == 2      \* submit() calls in LiveSpec
MaxStdout == 7        \* bytes a child prints on stdout in StreamSpec
NumSessions == 2      \* session ids the store hands out
MaxTime == 2          \* clock ticks of the session store
SessionTtl == 1       \* config.sessionTtlMs, in ticks
MaxSessionsPerKey == 1 \* config.maxSessionsPerKey
MaxFaults == 3        \* aborts, timeouts and failed children in one run
MaxShutdownCalls == 2 \* shutdown() calls made

\* --------------------------------------------------------- program constants
RETRY_MAX_ATTEMPTS == 3

Subs == 1..NumSubs

\* ------------------------------------------------------------ error values
\* An outcome of an attempt or of submit(): a ClaudeRunResult, an ApiError
\* (api = TRUE, code = its ErrorCode) or another Error (api = FALSE, reason
\* stands for what its message contains).
NoOutcome == [ok |-> FALSE, api |-> FALSE, code |-> "none", reason |-> "none"]
Ok(kind) == [ok |-> TRUE, api |-> FALSE, code |-> "none", reason |-> kind]
ApiError(code, reason) == [ok |-> FALSE, api |-> TRUE, code |-> code, reason |-> reason]
RawError(msg) == [ok |-> FALSE, api |-> FALSE, code |-> "none", reason |-> msg]

ErrorCodes ==
  {"auth_error", "timeout", "cli_error", "cli_not_found", "rate_limit",
   "upstream_auth_error", "invalid_request", "internal_error", "queue_full",
   "queue_timeout", "session_not_found", "session_limit_reached",
   "streaming_not_supported", "memory_error", "task_not_found", "invalid_model"}

isRetryableErrorNoRateLimit(error) ==
  IF error.api THEN error.code = "timeout"
  ELSE error.reason = "ECONNRESET"

isRetryableError(error) ==
  IF error.api THEN error.code = "timeout" \/ error.code = "rate_limit"
  ELSE error.reason = "ECONNRESET"

\* --------------------------------------------------------------- the runner
\* The patterns the 'close' handler looks for in what the child printed on
\* stderr.
StderrPatterns ==
  {"rate limit", "too many requests", "authentication", "not logged in",
   "login", "out of memory", "heap limit", "allocation failed"}
StdoutKinds == {"empty", "json", "json_is_error", "text"}

\* A phrase of stderr: one of the patterns, written in small letters or in
\* capitals. What a child prints on stderr is a set of at most
\* MaxStderrPhrases phrases.
Phrases == [pattern : StderrPatterns, shouted : BOOLEAN]
StderrTexts == {S \in SUBSET Phrases : Cardinality(S) <= MaxStderrPhrases}

asWritten(stderr) == {ph.pattern : ph \in {q \in stderr : ~q.shouted}}

\* stderr.toLowerCase(), as the set of patterns that stderrLower.includes
\* finds.
toLowerCase(stderr) == {ph.pattern : ph \in stderr}

\* parseClaudeOutput: empty output throws; is_error throws inside the try
\* block whose catch returns the raw text as a result.
parseClaudeOutput(stdout) ==
  IF stdout = "empty" THEN RawError("Empty output from Claude CLI")
  ELSE IF stdout = "json" THEN Ok("result")
  ELSE Ok("text")

\* The 'close' handler of runClaude.
CloseOutcome(aborted, killed, code, stderr, stdout) ==
  IF aborted THEN ApiError("cli_error", "client_disconnect")
  ELSE IF killed THEN ApiError("timeout", "request")
  ELSE IF code # 0 THEN
    LET stderrLower == toLowerCase(stderr) IN
    IF stderrLower \cap {"rate limit", "too many requests"} # {}
      THEN ApiError("rate_limit", "")
    ELSE IF stderrLower \cap {"authentication", "not logged in", "login"} # {}
      THEN ApiError("upstream_auth_error", "")
    ELSE IF stderrLower \cap {"out of memory", "heap limit", "allocation failed"} # {}
      THEN ApiError("memory_error", "")
    ELSE ApiError("cli_error", "exit")
  ELSE IF parseClaudeOutput(stdout).ok THEN parseClaudeOutput(stdout)
  ELSE ApiError("cli_error", "parse")

\* The exits a child makes in Spec: (code, stderr, stdout).
ChildExits ==
  { <<0, {}, "json">>,
    <<1, {[pattern |-> "rate limit", shouted |-> FALSE]}, "empty">>,
    <<1, {}, "empty">> }

\* ------------------------------------------------ the streaming demux
\* The bytes of stdout in stream mode. "D" stands for the bytes of a
\* content_block_delta object up to its text, and at the end of a line
\* closes it; "E" for a whole message_stop object; "lead" and "cont" are
\* the two bytes of one character of text outside ASCII; "nl" is the
\* newline.
Bytes == {"D", "E", "lead", "cont", "nl"}
TextChars == {"e-acute", "U+FFFD"}

\* The byte sequences of length 1 .. n
ByteSeqs(n) == UNION {[1 .. k -> Bytes] : k \in 1 .. n}

\* The bytes are UTF-8 as far as they go: a "cont" follows a "lead", and a
\* "lead" is followed by a "cont" or is the last byte so far.
ValidUtf8Prefix(bytes) ==
  \A i \in 1 .. Len(bytes) :
    /\ bytes[i] = "cont" => i > 1 /\ bytes[i - 1] = "lead"
    /\ bytes[i] = "lead" /\ i < Len(bytes) => bytes[i + 1] = "cont"

\* chunk.toString(): the UTF-8 decoding of one Buffer. A byte sequence
\* that is not a whole character decodes to U+FFFD.
RECURSIVE toString(_)
toString(bytes) ==
  IF bytes = <<>> THEN <<>>
  ELSE IF Head(bytes) = "lead" THEN
    IF Len(bytes) >= 2 /\ bytes[2] = "cont"
      THEN <<"e-acute">> \o toString(SubSeq(bytes, 3, Len(bytes)))
    ELSE <<"U+FFFD">> \o toString(Tail(bytes))
  ELSE IF Head(bytes) = "cont" THEN <<"U+FFFD">> \o toString(Tail(bytes))
  ELSE <<Head(bytes)>> \o toString(Tail(bytes))

\* text.split('\n'): the pieces between the newlines, at least one.
RECURSIVE split(_)
split(text) ==
  IF \A i \in 1 .. Len(text) : text[i] # "nl" THEN <<text>>
  ELSE LET i == CHOOSE j \in 1 .. Len(text) :
                  text[j] = "nl" /\ \A k \in 1 .. j - 1 : text[k] # "nl"
       IN <<SubSeq(text, 1, i - 1)>> \o split(SubSeq(text, i + 1, Len(text)))

\* The body of the loop over the lines: the chunks onChunk gets for one
\* line. An empty line is skipped; a line that JSON.parse rejects or whose
\* type is none of those looked for gives nothing.
chunksOfLine(line) ==
  IF line = <<>> THEN <<>>
  ELSE IF line = <<"E">> THEN <<[type |-> "message_end", text |-> <<>>]>>
  ELSE IF /\ Len(line) >= 3 /\ line[1] = "D" /\ line[Len(line)] = "D"
          /\ \A i \in 2 .. Len(line) - 1 : line[i] \in TextChars
    THEN <<[type |-> "content_block_delta",
            text |-> SubSeq(line, 2, Len(line) - 1)]>>
  ELSE <<>>

RECURSIVE chunksOfLines(_)
chunksOfLines(lines) ==
  IF lines = <<>> THEN <<>>
  ELSE chunksOfLine(Head(lines)) \o chunksOfLines(Tail(lines))

\* The stdout handler of a stream that has not started.
NoDemux == [pc |-> "open", bytes |-> <<>>, streamBuffer |-> <<>>, chunks |-> <<>>]

\* A runClaude call that has not started.
ExitCodes == 0 .. MaxExitCode
NoRun ==
  [pc |-> "idle", aborted |-> FALSE, killed |-> FALSE, childKilled |-> FALSE,
   code |-> 0, stderr |-> {}, stdout |-> "empty", outcome |-> NoOutcome]

\* ------------------------------------------------------------------- state
VARIABLES
  isShuttingDown,  \* WorkerPool.isShuttingDown
  isPaused,        \* PQueue.isPaused
  queue,           \* PQueue: the jobs waiting, oldest first (queue.size = Len)
  pending,         \* PQueue.pending: jobs started and not ended
  shutdownPc,      \* the shutdown() call: "idle", "waiting" (onIdle), "done"
  shutdownCalls,   \* shutdown() calls made
  pc,              \* where each submit() call is
  stream,          \* options.stream
  abortSignal,     \* options.abortSignal.aborted
  attempt,         \* submit: attempt
  calls,           \* executeWithQueue calls made by the submit() call
  lastError,       \* submit: lastError
  onlyTimeouts,    \* every attempt so far failed with code timeout
  overdue,         \* Date.now() - queuedAt > queueTimeoutMs
  child,           \* runClaude: the child of the running attempt
  killed,          \* runClaude: killed
  aborted,         \* runClaude: aborted
  childKilled,     \* runClaude: child.killed
  timeoutMs,       \* runClaude: options.timeoutMs of the running attempt
  grace,           \* runClaude: grace timers armed for the child
  sigkill,         \* runClaude: SIGKILL was sent to the child
  elapsed,         \* the time since the running attempt was enqueued: "zero"
                   \* (its job started as it was added), "some", or "over"
                   \* (more than requestTimeoutMs + queueTimeoutMs)
  orphans,         \* children alive whose job the queue timer has ended
  result,          \* what submit() returned or threw (pc = "done")
  faults,          \* aborts, timeouts and failed children so far
  \* TaskStore; the task of submit() call s has id s
  tasks,           \* the tasks table, by id
  runningTasks,    \* TaskStore.runningTasks: the ids that have an AbortController
  createThrows,    \* createSession will throw when the executor of the task calls it
  cancelRet,       \* the cancelTask call of the last step: its id and what it gave
  restarts,        \* times the process was started again
  run,             \* one runClaude call on its own: its locals and its outcome
  demux,           \* the stdout handler of one streaming run: the bytes read
                   \* so far, streamBuffer, the chunks given to onChunk
  mem,             \* the in-memory SessionStore: its sessions, its
                   \* sessionQueues, its clock, the callers of its acquireLock
  \* SessionStore
  now,             \* Date.now()
  nextId,          \* the next id uuidv4() returns
  rows,            \* the sessions table, by id
  ret,             \* the last call of the store: what was called, what it gave
  sessionQueues,   \* SessionStore.sessionQueues
  cpc,             \* where each caller of acquireLock is
  csid,            \* the session id the caller locks
  arrivedHeld,     \* the caller called acquireLock while another held the id
  grantedBy,       \* what returned the caller's acquireLock
  arrivals,        \* per session id, the callers in the order they called
  grants,          \* per session id, the callers in the order they returned
  \* The routes
  rpc,             \* where the handler of each request is
  rkind,           \* the route of the request: "run" (POST /api/run) or "task"
  rkey,            \* the API key of the request
  resume,          \* the session the request's execution resumes: {id} or {}
  releases,        \* releaseLock calls made by the handler of the request
  rout             \* how the handler ended: "ok", "failed" (the submission
                   \* threw), "threw" (the code after it threw), "not_found"

poolVars ==
  <<isShuttingDown, isPaused, queue, pending, shutdownPc, shutdownCalls, pc,
    stream, abortSignal, attempt, calls, lastError, onlyTimeouts, overdue,
    child, killed, aborted, childKilled, timeoutMs, grace, sigkill, elapsed,
    orphans, result,
    faults, tasks, runningTasks, createThrows, cancelRet, restarts, run, demux,
    mem>>
lockVars ==
  <<now, nextId, rows, ret, sessionQueues, cpc, csid, arrivedHeld, grantedBy, arrivals, grants>>
routeVars == <<rpc, rkind, rkey, resume, releases, rout>>
vars == <<poolVars, lockVars, routeVars>>

\* The caller of a submit() call that has returned goes on with what it got:
\* the record of the call is kept until the next step and then dropped.
Returned(f, init) ==
  [s \in Subs |-> IF pc[s] = "done" THEN init ELSE f[s]]

\* The pool's state as one value, for the operators below.
Cur ==
  [isShuttingDown |-> isShuttingDown, isPaused |-> isPaused, queue |-> queue,
   pending |-> pending, shutdownPc |-> shutdownPc,
   shutdownCalls |-> shutdownCalls, pc |-> Returned(pc, "returned"),
   stream |-> Returned(stream, FALSE),
   abortSignal |-> Returned(abortSignal, FALSE),
   attempt |-> Returned(attempt, 0), calls |-> Returned(calls, 0),
   lastError |-> Returned(lastError, NoOutcome),
   onlyTimeouts |-> Returned(onlyTimeouts, TRUE), overdue |-> overdue,
   child |-> child, killed |-> killed, aborted |-> aborted,
   childKilled |-> childKilled, timeoutMs |-> timeoutMs, grace |-> grace,
   sigkill |-> sigkill, elapsed |-> elapsed, added |-> {},
   orphans |-> orphans,
   result |-> Returned(result, NoOutcome), faults |-> faults,
   tasks |-> tasks, runningTasks |-> runningTasks,
   createThrows |-> createThrows, cancelRet |-> <<>>, restarts |-> restarts,
   run |-> run, demux |-> demux, mem |-> mem]

Becomes(st) ==
  /\ isShuttingDown' = st.isShuttingDown
  /\ isPaused' = st.isPaused
  /\ queue' = st.queue
  /\ pending' = st.pending
  /\ shutdownPc' = st.shutdownPc
  /\ shutdownCalls' = st.shutdownCalls
  /\ pc' = st.pc
  /\ stream' = st.stream
  /\ abortSignal' = st.abortSignal
  /\ attempt' = st.attempt
  /\ calls' = st.calls
  /\ lastError' = st.lastError
  /\ onlyTimeouts' = st.onlyTimeouts
  /\ overdue' = st.overdue
  /\ child' = st.child
  /\ killed' = st.killed
  /\ aborted' = st.aborted
  /\ childKilled' = st.childKilled
  /\ timeoutMs' = st.timeoutMs
  /\ grace' = st.grace
  /\ sigkill' = st.sigkill
  /\ elapsed' = st.elapsed
  /\ orphans' = st.orphans
  /\ result' = st.result
  /\ faults' = st.faults
  /\ tasks' = st.tasks
  /\ runningTasks' = st.runningTasks
  /\ createThrows' = st.createThrows
  /\ cancelRet' = st.cancelRet
  /\ restarts' = st.restarts
  /\ run' = st.run
  /\ demux' = st.demux
  /\ mem' = st.mem

\* ------------------------------------------------------- WorkerPool.submit
NeverLastAttempt(a) == a >= RETRY_MAX_ATTEMPTS

\* submit: attempt >= RETRY_MAX_ATTEMPTS - 1
LastAttempt(a) == a >= RETRY_MAX_ATTEMPTS - 1

RetryStreams(st, s) == FALSE

\* submit: options.stream sends the call past the retry loop.
NoRetry(st, s) == st.stream[s]

\* ---------------------------------------------------------------- TaskStore
NoTask == [status |-> "none", failure_reason |-> "null", completed_at |-> "null"]

\* createTask: the row inserted
NewTask == [status |-> "running", failure_reason |-> "null", completed_at |-> "null"]

\* An UPDATE ... WHERE id = ? of the tasks table: no row, no change.
UpdateTask(st, s, row) ==
  IF st.tasks[s].status \in {"none", "deleted"} THEN st
  ELSE [st EXCEPT !.tasks[s] = row]

KeepController(st, s) == st

\* setCompleted, setFailed: this.runningTasks.delete(taskId)
DeleteController(st, s) == [st EXCEPT !.runningTasks = @ \ {s}]

\* setCompleted(taskId, result, claudeSessionId)
setCompletedUnstamped(st, s) ==
  DeleteController(
    UpdateTask(st, s, [st.tasks[s] EXCEPT !.status = "completed"]), s)

setCompleted(st, s) ==
  DeleteController(
    UpdateTask(st, s, [st.tasks[s] EXCEPT !.status = "completed",
                                          !.completed_at = "set"]), s)

\* setFailed(taskId, reason)
setFailed(st, s, reason) ==
  DeleteController(
    UpdateTask(st, s, [status |-> "failed", failure_reason |-> reason,
                       completed_at |-> "set"]), s)

ExecutorNeverSilent(st, s) == FALSE

\* executeTask, catch: if (abortController.signal.aborted) return
ExecutorSilent(st, s) == st.abortSignal[s]

\* executeTask from the return of workerPool.submit on, for a submit() call
\* made for a task. A result of undefined makes result.sessionId throw.
executeTaskEnd(st, s, out) ==
  IF st.tasks[s].status = "none" THEN st
  ELSE IF out.ok /\ out.reason # "undefined" /\ ~st.createThrows[s]
    THEN setCompleted(st, s)
  ELSE IF ExecutorSilent(st, s) THEN st
  ELSE setFailed(st, s, "error")

\* submit() returns or throws out, and its caller goes on.
Finish(st, s, out) ==
  executeTaskEnd([st EXCEPT !.pc[s] = "done", !.result[s] = out], s, out)

\* submit after executeWithQueue has settled with out: the return, or the
\* catch block up to the start of the abortable delay.
AfterAttempt(st, s, out) ==
  LET st0 == [st EXCEPT !.overdue[s] = FALSE, !.child[s] = "none",
                        !.killed[s] = FALSE, !.aborted[s] = FALSE,
                        !.childKilled[s] = FALSE, !.grace[s] = 0,
                        !.sigkill[s] = FALSE, !.timeoutMs[s] = "none",
                        !.elapsed[s] = "none"]
      st1 == [st0 EXCEPT !.lastError[s] = out,
                !.onlyTimeouts[s] = @ /\ out.api /\ out.code = "timeout"]
  IN IF NoRetry(st, s) THEN Finish(st0, s, out)
     ELSE IF out.ok THEN Finish([st0 EXCEPT !.onlyTimeouts[s] = FALSE], s, out)
     ELSE IF ~isRetryableError(out) \/ LastAttempt(st.attempt[s])
       THEN Finish(st1, s, out)
     ELSE [st1 EXCEPT !.pc[s] = "backoff"]

\* ---------------------------------------------- WorkerPool.executeWithQueue
QueueOverFull(st) == Len(st.queue) > MaxQueueSize

\* executeWithQueue: this.queue.size >= this.config.maxQueueSize
QueueFull(st) == Len(st.queue) >= MaxQueueSize

SpawnsThoughAborted(st, s) == FALSE

\* runClaude: if (abortSignal?.aborted) throw, before the spawn
AbortedBeforeStart(st, s) == st.abortSignal[s]

PreSpawnNoDeadline(st, s) ==
  IF AbortedBeforeStart(st, s) THEN ApiError("cli_error", "aborted_before_start")
  ELSE NoOutcome

\* The job body and runClaude up to the spawn: the error thrown before a
\* child exists, or NoOutcome.
PreSpawn(st, s) ==
  IF st.overdue[s] THEN ApiError("queue_timeout", "")
  ELSE IF AbortedBeforeStart(st, s)
    THEN ApiError("cli_error", "aborted_before_start")
  ELSE NoOutcome

\* runClaude({...options, timeoutMs: config.requestTimeoutMs}): spawn, arm
\* the timeout of timeoutMs, install the abort listener. The job starts in
\* the call of queue.add (st.added) or in a later turn of the event loop.
Spawn(st, s) ==
  [st EXCEPT !.pc[s] = "running", !.child[s] = "alive", !.killed[s] = FALSE,
             !.aborted[s] = FALSE, !.childKilled[s] = FALSE, !.grace[s] = 0,
             !.sigkill[s] = FALSE, !.timeoutMs[s] = "requestTimeoutMs",
             !.elapsed[s] = IF s \in st.added THEN "zero" ELSE "some"]

\* PQueue 'idle': nothing waits and nothing runs; the onIdle() that
\* shutdown() awaits resolves, and shutdown() returns.
onIdle(st) ==
  IF st.shutdownPc = "waiting" /\ st.pending = 0 /\ st.queue = <<>>
    THEN [st EXCEPT !.shutdownPc = "done"]
  ELSE st

\* PQueue: start the oldest waiting job if a slot is free; with nothing
\* waiting and nothing running, emit 'idle'. A job that throws before it
\* spawns ends at once, and the queue moves on.
RECURSIVE tryToStartAnother(_)
tryToStartAnother(st) ==
  IF st.queue = <<>> THEN onIdle(st)
  ELSE IF st.isPaused \/ st.pending >= Concurrency THEN st
  ELSE LET s == Head(st.queue)
           st1 == [st EXCEPT !.queue = Tail(@), !.pending = @ + 1]
       IN IF PreSpawn(st1, s) # NoOutcome
            THEN tryToStartAnother(
                   AfterAttempt([st1 EXCEPT !.pending = @ - 1], s, PreSpawn(st1, s)))
          ELSE Spawn(st1, s)

\* PQueue: the job of s ends (its promise settles with out), then next().
JobEnd(st, s, out) ==
  tryToStartAnother(AfterAttempt([st EXCEPT !.pending = @ - 1], s, out))

executeWithQueue(st, s) ==
  LET st0 == [st EXCEPT !.calls[s] = @ + 1] IN
  IF QueueFull(st) THEN AfterAttempt(st0, s, ApiError("queue_full", ""))
  ELSE tryToStartAnother(
         [st0 EXCEPT !.queue = Append(@, s), !.pc[s] = "queued",
                     !.overdue[s] = FALSE, !.added = @ \cup {s}])

\* One turn of the retry loop of submit, from the loop condition on.
RetryLoop(st, s) ==
  IF st.attempt[s] >= RETRY_MAX_ATTEMPTS THEN Finish(st, s, st.lastError[s])
  ELSE IF st.abortSignal[s] THEN Finish(st, s, ApiError("cli_error", "aborted"))
  ELSE executeWithQueue(st, s)

\* ----------------------------------------------------------------- actions
NeverRefused(st) == FALSE

\* submit: if (this.isShuttingDown)
Refused(st) == st.isShuttingDown

\* A route calls submit(options); calls are numbered in the order made.
\* The routes create the AbortController right before the call, so the
\* signal has not fired yet.
submit(st, s) ==
  IF Refused(st) THEN Finish(st, s, ApiError("cli_error", "shutdown"))
  ELSE IF NoRetry(st, s) THEN executeWithQueue(st, s)
  ELSE RetryLoop(st, s)

Submit(s) ==
  /\ pc[s] = "idle"
  /\ IF s = 1 THEN TRUE ELSE pc[s - 1] # "idle"
  /\ \E str \in BOOLEAN : Becomes(submit([Cur EXCEPT !.stream[s] = str], s))
  /\ UNCHANGED <<lockVars, routeVars>>

\* The abort signal of s has fired (st.abortSignal[s]): what its listeners
\* do, in the abortable delay of submit and in runClaude.
abort(st, s) ==
  IF st.pc[s] = "backoff"
    THEN Finish(st, s, ApiError("cli_error", "aborted_during_retry"))
  ELSE IF st.pc[s] = "running" /\ ~st.childKilled[s]
    THEN [st EXCEPT !.aborted[s] = TRUE, !.childKilled[s] = TRUE,
                    !.grace[s] = @ + 1]
  ELSE st

\* The abort signal of s fires: the client went away.
Abort(s) ==
  /\ pc[s] \in {"queued", "running", "backoff", "cleared"}
  /\ ~abortSignal[s]
  /\ faults < MaxFaults
  /\ Becomes(abort([Cur EXCEPT !.abortSignal[s] = TRUE, !.faults = @ + 1], s))
  /\ UNCHANGED <<lockVars, routeVars>>

\* The backoff delay of s ends.
BackoffElapsed(s) ==
  /\ pc[s] = "backoff"
  /\ Becomes(RetryLoop([Cur EXCEPT !.attempt[s] = @ + 1], s))
  /\ UNCHANGED <<lockVars, routeVars>>

\* queueTimeoutMs passes while s waits in the queue.
QueueDeadlinePasses(s) ==
  /\ pc[s] = "queued"
  /\ ~overdue[s]
  /\ faults < MaxFaults
  /\ Becomes([Cur EXCEPT !.overdue[s] = TRUE, !.faults = @ + 1])
  /\ UNCHANGED <<lockVars, routeVars>>

\* runClaude: the timeoutMs timer fires: SIGTERM, and the grace timer.
RunnerTimeout(s) ==
  /\ pc[s] = "running"
  /\ ~killed[s]
  /\ faults < MaxFaults
  /\ Becomes([Cur EXCEPT !.killed[s] = TRUE, !.childKilled[s] = TRUE,
                         !.grace[s] = @ + 1, !.faults = @ + 1])
  /\ UNCHANGED <<lockVars, routeVars>>

\* runClaude: a grace timer (KILL_GRACE_PERIOD_MS after a SIGTERM) fires:
\* if (!child.killed) child.kill('SIGKILL'). Node sets child.killed when
\* kill() has delivered a signal, whatever the signal and whether or not the
\* child has exited. The timers of a child that has closed find nothing to
\* kill and are left out.
GraceElapsed(s) ==
  /\ pc[s] = "running"
  /\ grace[s] > 0
  /\ Becomes(IF ~childKilled[s]
               THEN [Cur EXCEPT !.grace[s] = @ - 1, !.sigkill[s] = TRUE,
                                !.childKilled[s] = TRUE]
             ELSE [Cur EXCEPT !.grace[s] = @ - 1])
  /\ UNCHANGED <<lockVars, routeVars>>

\* runClaude: the child's 'close' event.
ChildClose(s) ==
  /\ pc[s] = "running"
  /\ \E e \in ChildExits :
       LET bad == ~aborted[s] /\ ~killed[s] /\ e[1] # 0 IN
       /\ bad => faults < MaxFaults
       /\ Becomes(JobEnd([Cur EXCEPT !.faults = IF bad THEN @ + 1 ELSE @], s,
                         CloseOutcome(aborted[s], killed[s], e[1], e[2], e[3])))
  /\ UNCHANGED <<lockVars, routeVars>>

\* runClaude: the child's 'error' event: the spawn failed.
SpawnError(s) ==
  /\ pc[s] = "running"
  /\ ~childKilled[s]
  /\ faults < MaxFaults
  /\ \E enoent \in BOOLEAN :
       Becomes(JobEnd([Cur EXCEPT !.faults = @ + 1], s, IF enoent THEN ApiError("cli_not_found", "")
                              ELSE ApiError("cli_error", "spawn")))
  /\ UNCHANGED <<lockVars, routeVars>>

\* The clock: more than requestTimeoutMs + queueTimeoutMs have gone by since
\* executeWithQueue set queuedAt for the running attempt of s. The job
\* started within queueTimeoutMs of queuedAt, so the runner's timer has fired
\* before; it started after queuedAt, so the queue's timer has not fired yet.
CeilingPasses(s) ==
  /\ pc[s] = "running"
  /\ killed[s]
  /\ elapsed[s] = "some"
  /\ Becomes([Cur EXCEPT !.elapsed[s] = "over"])
  /\ UNCHANGED <<lockVars, routeVars>>

\* PQueue: the timer of requestTimeoutMs + queueTimeoutMs of the job of s
\* fires. It runs from the start of the job, so the runner's timer has
\* fired before it. The job ends; its child is left to itself.
PoolTimeout(s) ==
  /\ pc[s] = "running"
  /\ killed[s]
  /\ elapsed[s] # "some"
  /\ faults < MaxFaults
  /\ \E throws \in BOOLEAN :
       Becomes(JobEnd([Cur EXCEPT !.orphans[s] = @ + 1, !.faults = @ + 1], s,
                      IF throws THEN ApiError("timeout", "total")
                      ELSE Ok("undefined")))
  /\ UNCHANGED <<lockVars, routeVars>>

\* A child whose job the queue timer ended exits.
OrphanExit(s) ==
  /\ orphans[s] > 0
  /\ Becomes([Cur EXCEPT !.orphans[s] = @ - 1])
  /\ UNCHANGED <<lockVars, routeVars>>

\* shutdown(): pause, clear the waiting jobs, await onIdle(), which resolves
\* at once when nothing runs.
Shutdown ==
  /\ shutdownCalls < MaxShutdownCalls
  /\ Becomes(IF isShuttingDown THEN [Cur EXCEPT !.shutdownCalls = @ + 1]
             ELSE onIdle([Cur EXCEPT !.shutdownCalls = @ + 1,
                     !.isShuttingDown = TRUE, !.isPaused = TRUE,
                     !.queue = <<>>,
                     !.pc = [s \in Subs |->
                               IF @[s] = "queued" THEN "cleared" ELSE @[s]],
                     !.shutdownPc = "waiting"]))
  /\ UNCHANGED <<lockVars, routeVars>>

\* ------------------------------------------------- one runClaude call
\* runClaude(options): the child is spawned, the timeout timer is set and
\* the abort listener added.
RunClaude ==
  /\ run.pc = "idle"
  /\ Becomes([Cur EXCEPT !.run = [NoRun EXCEPT !.pc = "running"]])
  /\ UNCHANGED <<lockVars, routeVars>>

\* abortHandler: if (!child.killed) { aborted = true; child.kill('SIGTERM') }
RunAbortHandler ==
  /\ run.pc = "running"
  /\ Becomes([Cur EXCEPT !.run = IF run.childKilled THEN run
                                 ELSE [run EXCEPT !.aborted = TRUE,
                                                  !.childKilled = TRUE]])
  /\ UNCHANGED <<lockVars, routeVars>>

\* The timeout timer: killed = true; child.kill('SIGTERM')
RunTimeoutFires ==
  /\ run.pc = "running"
  /\ ~run.killed
  /\ Becomes([Cur EXCEPT !.run = [run EXCEPT !.killed = TRUE,
                                             !.childKilled = TRUE]])
  /\ UNCHANGED <<lockVars, routeVars>>

\* The 'close' event with an exit code, what the child printed on stderr
\* and what it printed on stdout: the promise settles.
RunCloses ==
  /\ run.pc = "running"
  /\ \E code \in ExitCodes, stderr \in StderrTexts, stdout \in StdoutKinds :
       Becomes([Cur EXCEPT !.run =
         [run EXCEPT !.pc = "settled", !.code = code, !.stderr = stderr,
                     !.stdout = stdout,
                     !.outcome = CloseOutcome(run.aborted, run.killed, code,
                                              stderr, stdout)]])
  /\ UNCHANGED <<lockVars, routeVars>>

\* ------------------------------------------- the stdout of a streaming run
\* child.stdout 'data' with stream && onChunk: one read of the pipe, which
\* ends wherever the pipe ends it.
StdoutData ==
  /\ demux.pc = "open"
  /\ \E chunk \in ByteSeqs(MaxStdout - Len(demux.bytes)) :
       /\ ValidUtf8Prefix(demux.bytes \o chunk)
       /\ LET data == toString(chunk)
              lines == split(demux.streamBuffer \o data)
          IN Becomes([Cur EXCEPT !.demux =
               [demux EXCEPT
                  !.bytes = @ \o chunk,
                  !.streamBuffer = lines[Len(lines)],
                  !.chunks = @ \o chunksOfLines(SubSeq(lines, 1, Len(lines) - 1))]])
  /\ UNCHANGED <<lockVars, routeVars>>

\* The 'close' event: the child has exited, by itself or killed by the
\* timeout timer or the abort handler. Nothing is done with streamBuffer.
StdoutCloses ==
  /\ demux.pc = "open"
  /\ ValidUtf8Prefix(demux.bytes \o <<"nl">>)
  /\ Becomes([Cur EXCEPT !.demux = [demux EXCEPT !.pc = "closed"]])
  /\ UNCHANGED <<lockVars, routeVars>>

\* ------------------------------------------------------------- the tasks
\* POST /api/tasks: createTask inserts the row and registers the
\* AbortController; executeTask runs up to `await workerPool.submit` with
\* stream: false.
SubmitTask(s) ==
  /\ pc[s] = "idle"
  /\ IF s = 1 THEN TRUE ELSE pc[s - 1] # "idle"
  /\ \E throws \in BOOLEAN :
       Becomes(submit([Cur EXCEPT !.stream[s] = FALSE, !.tasks[s] = NewTask,
                                  !.runningTasks = @ \cup {s},
                                  !.createThrows[s] = throws], s))
  /\ UNCHANGED <<lockVars, routeVars>>

CancelUnregistered(st, s) == FALSE

\* cancelTask: if (!controller) return false
NoController(st, s) == s \notin st.runningTasks

\* cancelTask(taskId): controller.abort() runs the listeners of the signal,
\* setFailed writes the row, and then the promise continuations run.
cancelTask(st, s) ==
  IF NoController(st, s) THEN [st EXCEPT !.cancelRet = <<s, FALSE>>]
  ELSE abort(setFailed([st EXCEPT !.abortSignal[s] = TRUE,
                                  !.cancelRet = <<s, TRUE>>], s, "cancelled"), s)

\* A call of cancelTask(s), as DELETE /api/tasks/:id makes it for a task
\* it finds running.
CancelTask(s) ==
  /\ faults < MaxFaults
  /\ Becomes(cancelTask([Cur EXCEPT !.faults = @ + 1], s))
  /\ UNCHANGED <<lockVars, routeVars>>

SweptWhateverStatus(s) == tasks[s].status \notin {"none", "deleted"}

\* stmtCleanupExpired: WHERE status IN ('completed', 'failed') AND
\* completed_at < ?, for a row whose completed_at is old enough
Swept(s) == tasks[s].status \in {"completed", "failed"}

\* cleanupExpiredTasks deletes the row of s: it is completed or failed, and
\* its completed_at is older than TASK_TTL_MS.
TaskExpires(s) ==
  /\ Swept(s)
  /\ Becomes([Cur EXCEPT !.tasks[s] = [NoTask EXCEPT !.status = "deleted"]])
  /\ UNCHANGED <<lockVars, routeVars>>

markNoTaskFailed(rowsOfTasks) == rowsOfTasks

\* markOrphanedTasksFailed(): UPDATE tasks SET status = 'failed',
\* failure_reason = 'server_restart', completed_at = ? WHERE status = 'running'
markOrphanedTasksFailed(rowsOfTasks) ==
  [s \in Subs |->
     IF rowsOfTasks[s].status = "running"
       THEN [rowsOfTasks[s] EXCEPT !.status = "failed",
                                   !.failure_reason = "server_restart",
                                   !.completed_at = "set"]
     ELSE rowsOfTasks[s]]

\* The process ends and is started again: the tasks table is what the old
\* process left, everything in memory is new, and markOrphanedTasksFailed
\* runs before a request is taken.
Restart ==
  /\ faults < MaxFaults
  /\ isShuttingDown' = FALSE
  /\ isPaused' = FALSE
  /\ queue' = <<>>
  /\ pending' = 0
  /\ shutdownPc' = "idle"
  /\ pc' = [s \in Subs |-> IF pc[s] = "idle" THEN "idle" ELSE "returned"]
  /\ stream' = [s \in Subs |-> FALSE]
  /\ abortSignal' = [s \in Subs |-> FALSE]
  /\ attempt' = [s \in Subs |-> 0]
  /\ calls' = [s \in Subs |-> 0]
  /\ lastError' = [s \in Subs |-> NoOutcome]
  /\ onlyTimeouts' = [s \in Subs |-> TRUE]
  /\ overdue' = [s \in Subs |-> FALSE]
  /\ child' = [s \in Subs |-> "none"]
  /\ killed' = [s \in Subs |-> FALSE]
  /\ aborted' = [s \in Subs |-> FALSE]
  /\ childKilled' = [s \in Subs |-> FALSE]
  /\ timeoutMs' = [s \in Subs |-> "none"]
  /\ grace' = [s \in Subs |-> 0]
  /\ sigkill' = [s \in Subs |-> FALSE]
  /\ elapsed' = [s \in Subs |-> "none"]
  /\ orphans' = [s \in Subs |-> 0]
  /\ result' = [s \in Subs |-> NoOutcome]
  /\ runningTasks' = {}
  /\ createThrows' = [s \in Subs |-> FALSE]
  /\ cancelRet' = <<>>
  /\ tasks' = markOrphanedTasksFailed(tasks)
  /\ faults' = faults + 1
  /\ restarts' = restarts + 1
  /\ run' = run
  /\ demux' = demux
  /\ mem' = mem
  /\ UNCHANGED <<shutdownCalls, lockVars, routeVars>>

\* ------------------------------------------------------------ SessionStore
SessionIds == 1..NumSessions
Callers == 1..NumCallers
ApiKeys == {"key-a", "key-b"}

\* hashApiKey: a digest, one per key.
hashApiKey(apiKey) == <<"sha256", apiKey>>

\* Date.toISOString(): fixed-width digits, the most significant first.
toISOString(t) == <<t \div 10, t % 10>>

\* new Date(text).getTime()
parseDate(text) == text[1] * 10 + text[2]

TextLessOrEqual(a, b) == a[1] < b[1] \/ (a[1] = b[1] /\ a[2] <= b[2])

\* SQLite: a < b on TEXT values, byte by byte.
TextLess(a, b) == a[1] < b[1] \/ (a[1] = b[1] /\ a[2] < b[2])

NoRow == [present |-> FALSE, api_key_hash |-> <<>>, last_accessed_at |-> <<>>]
NoQueue == <<"no entry">>
Null == [null |-> TRUE]
NoCall == [op |-> "none", args |-> <<>>, value |-> Null]

\* rowToSession(row) for the row of sessionId
rowToSession(sessionId) ==
  [id |-> sessionId, apiKeyHash |-> rows[sessionId].api_key_hash,
   lastAccessedAt |-> parseDate(rows[sessionId].last_accessed_at),
   locked |-> sessionQueues[sessionId] # NoQueue]

getSessionAnyKey(sessionId, apiKey) ==
  IF ~rows[sessionId].present THEN Null ELSE rowToSession(sessionId)

\* getSession(sessionId, apiKey)
getSession(sessionId, apiKey) ==
  IF ~rows[sessionId].present THEN Null
  ELSE IF rows[sessionId].api_key_hash # hashApiKey(apiKey) THEN Null
  ELSE rowToSession(sessionId)

\* stmtCountByApiKey.get(apiKeyHash).count
CountByApiKey(apiKeyHash) ==
  Cardinality({i \in SessionIds :
                 rows[i].present /\ rows[i].api_key_hash = apiKeyHash})

LimitNeverReached(apiKey) == FALSE

\* createSession: countRow.count >= this.config.maxSessionsPerKey
LimitReached(apiKey) == CountByApiKey(hashApiKey(apiKey)) >= MaxSessionsPerKey

\* createSession(claudeSessionId, apiKey); uuidv4() gives nextId.
CreateSession(apiKey) ==
  /\ IF LimitReached(apiKey)
       THEN /\ ret' = [op |-> "createSession", args |-> <<apiKey>>,
                       value |-> ApiError("session_limit_reached", "")]
            /\ UNCHANGED <<rows, nextId>>
     ELSE /\ nextId <= NumSessions
          /\ rows' = [rows EXCEPT ![nextId] =
                        [present |-> TRUE, api_key_hash |-> hashApiKey(apiKey),
                         last_accessed_at |-> toISOString(now)]]
          /\ nextId' = nextId + 1
          /\ ret' = [op |-> "createSession", args |-> <<apiKey>>,
                     value |-> [id |-> nextId, apiKeyHash |-> hashApiKey(apiKey),
                                lastAccessedAt |-> now, locked |-> FALSE]]
  /\ UNCHANGED <<now, sessionQueues, cpc, csid, arrivedHeld, grantedBy,
                 arrivals, grants, poolVars, routeVars>>

\* A caller calls getSession(sessionId, apiKey).
GetSession(sessionId, apiKey) ==
  /\ ret' = [op |-> "getSession", args |-> <<sessionId, apiKey>>,
             value |-> getSession(sessionId, apiKey)]
  /\ UNCHANGED <<now, nextId, rows, sessionQueues, cpc, csid, arrivedHeld,
                 grantedBy, arrivals, grants, poolVars, routeVars>>

\* listSessions(apiKey): id and last_accessed_at of the rows of the key.
listSessions(apiKey) ==
  { [id |-> i, lastAccessedAt |-> rows[i].last_accessed_at] :
      i \in {k \in SessionIds :
               rows[k].present /\ rows[k].api_key_hash = hashApiKey(apiKey)} }

\* A caller calls listSessions(apiKey).
ListSessions(apiKey) ==
  /\ ret' = [op |-> "listSessions", args |-> <<apiKey>>,
             value |-> listSessions(apiKey)]
  /\ UNCHANGED <<now, nextId, rows, sessionQueues, cpc, csid, arrivedHeld,
                 grantedBy, arrivals, grants, poolVars, routeVars>>

\* touchSession(sessionId)
TouchSession(sessionId) ==
  /\ rows[sessionId].present
  /\ rows' = [rows EXCEPT ![sessionId].last_accessed_at = toISOString(now)]
  /\ ret' = NoCall
  /\ UNCHANGED <<now, nextId, sessionQueues, cpc, csid, arrivedHeld,
                 grantedBy, arrivals, grants, poolVars, routeVars>>

\* acquireLock(sessionId), called by c: what it does to the store.
acquireLock(c, sessionId) ==
  /\ csid' = [csid EXCEPT ![c] = sessionId]
  /\ IF ~rows[sessionId].present
       THEN /\ cpc' = [cpc EXCEPT ![c] = "failed"]
            /\ UNCHANGED <<sessionQueues, arrivedHeld, grantedBy, arrivals, grants>>
     ELSE /\ arrivedHeld' = [arrivedHeld EXCEPT ![c] =
               \E d \in Callers : cpc[d] = "holding" /\ csid[d] = sessionId]
          /\ arrivals' = [arrivals EXCEPT ![sessionId] = Append(@, c)]
          /\ IF sessionQueues[sessionId] = NoQueue \/ Len(sessionQueues[sessionId]) = 0
               THEN /\ sessionQueues' = [sessionQueues EXCEPT ![sessionId] = <<>>]
                    /\ cpc' = [cpc EXCEPT ![c] = "holding"]
                    /\ grantedBy' = [grantedBy EXCEPT ![c] = "acquireLock"]
                    /\ grants' = [grants EXCEPT ![sessionId] = Append(@, c)]
             ELSE /\ sessionQueues' = [sessionQueues EXCEPT ![sessionId] = Append(@, c)]
                  /\ cpc' = [cpc EXCEPT ![c] = "waiting"]
                  /\ UNCHANGED <<grantedBy, grants>>

\* A caller c calls acquireLock(sessionId).
AcquireLock(c, sessionId) ==
  /\ cpc[c] = "idle"
  /\ acquireLock(c, sessionId)
  /\ ret' = NoCall
  /\ UNCHANGED <<now, nextId, rows, poolVars, routeVars>>

\* releaseLock(csid[c]), called by c: what it does to the store.
releaseLock(c) ==
     LET sessionId == csid[c]
         q == sessionQueues[sessionId]
     IN IF q = NoQueue
          THEN /\ cpc' = [cpc EXCEPT ![c] = "released"]
               /\ UNCHANGED <<sessionQueues, grantedBy, grants>>
        ELSE IF Len(q) > 0
          THEN /\ sessionQueues' = [sessionQueues EXCEPT ![sessionId] = Tail(q)]
               /\ cpc' = [cpc EXCEPT ![c] = "released", ![Head(q)] = "holding"]
               /\ grantedBy' = [grantedBy EXCEPT ![Head(q)] = "releaseLock"]
               /\ grants' = [grants EXCEPT ![sessionId] = Append(@, Head(q))]
        ELSE /\ sessionQueues' = [sessionQueues EXCEPT ![sessionId] = NoQueue]
             /\ cpc' = [cpc EXCEPT ![c] = "released"]
             /\ UNCHANGED <<grantedBy, grants>>

\* A caller c calls releaseLock(csid[c]) once its acquireLock has returned.
ReleaseLock(c) ==
  /\ cpc[c] = "holding"
  /\ releaseLock(c)
  /\ ret' = NoCall
  /\ UNCHANGED <<now, nextId, rows, csid, arrivedHeld, arrivals, poolVars, routeVars>>

AnyKeyDeletes(sessionId, apiKey) == ~rows[sessionId].present

\* deleteSession: const session = this.getSession(sessionId, apiKey);
\* if (!session) return false
NoSessionToDelete(sessionId, apiKey) == getSession(sessionId, apiKey) = Null

\* deleteSession(sessionId, apiKey)
DeleteSession(sessionId, apiKey) ==
  /\ IF NoSessionToDelete(sessionId, apiKey)
       THEN /\ ret' = [op |-> "deleteSession", args |-> <<sessionId, apiKey>>,
                       value |-> FALSE]
            /\ UNCHANGED <<sessionQueues, rows>>
     ELSE /\ sessionQueues' = [sessionQueues EXCEPT ![sessionId] = NoQueue]
          /\ rows' = [rows EXCEPT ![sessionId] = NoRow]
          /\ ret' = [op |-> "deleteSession", args |-> <<sessionId, apiKey>>,
                     value |-> TRUE]
  /\ UNCHANGED <<now, nextId, cpc, csid, arrivedHeld, grantedBy, arrivals,
                 grants, poolVars, routeVars>>

\* getStats()
getStats ==
  [totalSessions |-> Cardinality({i \in SessionIds : rows[i].present}),
   lockedSessions |-> Cardinality({i \in SessionIds : sessionQueues[i] # NoQueue})]

\* The cleanup timer: DELETE FROM sessions WHERE last_accessed_at < cutoff.
CleanupExpiredSessions ==
  /\ LET cutoff == toISOString(now - SessionTtl)
     IN rows' = [i \in SessionIds |->
                   IF rows[i].present /\ TextLess(rows[i].last_accessed_at, cutoff)
                     THEN NoRow ELSE rows[i]]
  /\ ret' = [op |-> "cleanupExpiredSessions", args |-> <<>>, value |-> Null]
  /\ UNCHANGED <<now, nextId, sessionQueues, cpc, csid, arrivedHeld,
                 grantedBy, arrivals, grants, poolVars, routeVars>>

Tick ==
  /\ now < MaxTime
  /\ now' = now + 1
  /\ ret' = NoCall
  /\ UNCHANGED <<nextId, rows, sessionQueues, cpc, csid, arrivedHeld,
                 grantedBy, arrivals, grants, poolVars, routeVars>>

LockInit ==
  /\ now = 0
  /\ nextId = 1
  /\ rows = [i \in SessionIds |-> NoRow]
  /\ ret = NoCall
  /\ sessionQueues = [i \in SessionIds |-> NoQueue]
  /\ cpc = [c \in Callers |-> "idle"]
  /\ csid = [c \in Callers |-> 1]
  /\ arrivedHeld = [c \in Callers |-> FALSE]
  /\ grantedBy = [c \in Callers |-> "none"]
  /\ arrivals = [i \in SessionIds |-> <<>>]
  /\ grants = [i \in SessionIds |-> <<>>]

LockNext ==
  \/ \E k \in ApiKeys : CreateSession(k)
  \/ \E i \in SessionIds : TouchSession(i)
  \/ \E c \in Callers, i \in SessionIds : AcquireLock(c, i)
  \/ \E c \in Callers : ReleaseLock(c)
  \/ \E i \in SessionIds, k \in ApiKeys : DeleteSession(i, k)
  \/ CleanupExpiredSessions
  \/ Tick

\* ------------------------------------- the in-memory SessionStore's locks
\* The class keeps its sessions in a Map, each with a locked flag, and the
\* resolvers of the suspended acquireLock calls in sessionQueues (no entry
\* and an empty queue are read alike, so both are <<>> here).
NoSession == [present |-> FALSE, apiKeyHash |-> <<>>, lastAccessedAt |-> <<>>,
              locked |-> FALSE]

NoMem ==
  [now |-> 0, ids |-> {},
   sessions |-> [i \in SessionIds |-> NoSession],
   sessionQueues |-> [i \in SessionIds |-> <<>>],
   cpc |-> [c \in Callers |-> "idle"],
   csid |-> [c \in Callers |-> {}]]

MemBecomes(m) == Becomes([Cur EXCEPT !.mem = m]) /\ UNCHANGED <<lockVars, routeVars>>

\* getSessionsForApiKey(apiKeyHash).length
MemCountByApiKey(apiKeyHash) ==
  Cardinality({i \in SessionIds :
     mem.sessions[i].present /\ mem.sessions[i].apiKeyHash = apiKeyHash})

\* createSession(claudeSessionId, apiKey) that does not throw: uuidv4()
\* gives an id never given before.
MemCreateSession(i, apiKey) ==
  /\ i \notin mem.ids
  /\ \A j \in SessionIds : j < i => j \in mem.ids
  /\ MemCountByApiKey(hashApiKey(apiKey)) < MaxSessionsPerKey
  /\ MemBecomes([mem EXCEPT
       !.ids = @ \cup {i},
       !.sessions[i] = [present |-> TRUE, apiKeyHash |-> hashApiKey(apiKey),
                        lastAccessedAt |-> mem.now, locked |-> FALSE]])

\* touchSession(sessionId) of a session that exists
MemTouchSession(i) ==
  /\ mem.sessions[i].present
  /\ mem.sessions[i].lastAccessedAt # mem.now
  /\ MemBecomes([mem EXCEPT !.sessions[i].lastAccessedAt = mem.now])

\* A caller c calls acquireLock(sessionId).
MemAcquireLock(c, sessionId) ==
  /\ mem.cpc[c] = "idle"
  /\ LET m == [mem EXCEPT !.csid[c] = {sessionId}]
     IN IF ~mem.sessions[sessionId].present
          THEN MemBecomes([m EXCEPT !.cpc[c] = "failed"])
        ELSE IF ~mem.sessions[sessionId].locked
          THEN MemBecomes([m EXCEPT !.sessions[sessionId].locked = TRUE,
                                    !.cpc[c] = "holding"])
        ELSE MemBecomes([m EXCEPT !.sessionQueues[sessionId] = Append(@, c),
                                  !.cpc[c] = "waiting"])

\* A caller c calls releaseLock of the session it locked, once its
\* acquireLock has returned.
MemReleaseLock(c) ==
  /\ mem.cpc[c] = "holding"
  /\ LET sessionId == CHOOSE i \in SessionIds : mem.csid[c] = {i}
         q == mem.sessionQueues[sessionId]
         m == [mem EXCEPT !.cpc[c] = "released"]
     IN IF ~mem.sessions[sessionId].present
          THEN MemBecomes(m)
        ELSE IF Len(q) > 0
          THEN MemBecomes([m EXCEPT !.sessionQueues[sessionId] = Tail(q),
                                    !.cpc[Head(q)] = "holding"])
        ELSE MemBecomes([m EXCEPT !.sessions[sessionId].locked = FALSE])

\* What deleteSession and the cleanup do with the resolvers queued for a
\* session they remove: this.sessionQueues.delete(id).
DropQueue(m, sessionId) == [m EXCEPT !.sessionQueues[sessionId] = <<>>]

\* deleteSession(sessionId, apiKey) by the owner of the session
MemDeleteSession(sessionId) ==
  /\ mem.sessions[sessionId].present
  /\ MemBecomes([DropQueue(mem, sessionId) EXCEPT
                   !.sessions[sessionId] = NoSession])

\* The cleanup timer: every session older than sessionTtlMs is removed.
MemCleanupExpiredSessions ==
  LET expiredIds == {i \in SessionIds :
        mem.sessions[i].present
          /\ mem.now - mem.sessions[i].lastAccessedAt > SessionTtl}
      RECURSIVE Remove(_, _)
      Remove(m, ids) ==
        IF ids = {} THEN m
        ELSE LET id == CHOOSE i \in ids : TRUE
             IN Remove([DropQueue(m, id) EXCEPT !.sessions[id] = NoSession],
                       ids \ {id})
  IN /\ expiredIds # {}
     /\ MemBecomes(Remove(mem, expiredIds))

MemTick ==
  /\ mem.now < MaxTime
  /\ MemBecomes([mem EXCEPT !.now = @ + 1])

MemLockNext ==
  \/ \E i \in SessionIds, k \in ApiKeys : MemCreateSession(i, k)
  \/ \E i \in SessionIds : MemTouchSession(i)
  \/ \E c \in Callers, i \in SessionIds : MemAcquireLock(c, i)
  \/ \E c \in Callers : MemReleaseLock(c)
  \/ \E i \in SessionIds : MemDeleteSession(i)
  \/ MemCleanupExpiredSessions
  \/ MemTick

\* Every caller whose acquireLock has returned calls releaseLock.
MemFairness == \A c \in Callers : WF_vars(MemReleaseLock(c))


\* ------------------------------------------------------------- the routes
\* body.sessionId of a request: {} when the field is absent.
SessionIdFields == {{}} \cup {{i} : i \in SessionIds}

\* sessionStore.createSession(result.sessionId, apiKey) after a run, where it
\* does not throw.
RowsAfterCreate(apiKey) ==
  [rows EXCEPT ![nextId] =
     [present |-> TRUE, api_key_hash |-> hashApiKey(apiKey),
      last_accessed_at |-> toISOString(now)]]

\* The values a sessionId field of a response can hold: an id the store
\* made with uuidv4(), or result.sessionId, the session_id the CLI printed
\* in the run made for request c.
ExternalId(i) == <<"external", i>>
UpstreamToken(c) == <<"upstream", c>>
UpstreamTokens == {UpstreamToken(c) : c \in Callers}

\* POST /api/run up to `await workerPool.submit`: the session lookup, the
\* lock, and the submit if the lock is granted at once.
RunRequest(c, sessionId, apiKey) ==
  /\ rpc[c] = "idle"
  /\ cpc[c] = "idle"
  /\ rkind' = [rkind EXCEPT ![c] = "run"]
  /\ rkey' = [rkey EXCEPT ![c] = apiKey]
  /\ IF sessionId = {}
       THEN /\ rpc' = [rpc EXCEPT ![c] = "submitted"]
            /\ UNCHANGED <<resume, cpc, csid, sessionQueues, arrivedHeld,
                           grantedBy, arrivals, grants, rout>>
     ELSE \E id \in sessionId :
            IF getSession(id, apiKey) = Null
              THEN /\ rpc' = [rpc EXCEPT ![c] = "ended"]
                   /\ rout' = [rout EXCEPT ![c] = "not_found"]
                   /\ UNCHANGED <<resume, cpc, csid, sessionQueues, arrivedHeld,
                                  grantedBy, arrivals, grants>>
            ELSE /\ resume' = [resume EXCEPT ![c] = {id}]
                 /\ acquireLock(c, id)
                 /\ rpc' = [rpc EXCEPT ![c] =
                              IF cpc'[c] = "holding" THEN "submitted" ELSE "locking"]
                 /\ UNCHANGED rout
  /\ ret' = NoCall
  /\ UNCHANGED <<now, nextId, rows, releases, poolVars>>

ReleaseAfterSuccess(c, ok, throws) == resume[c] # {} /\ ok /\ ~throws

\* POST /api/run, finally: if (existingSession), whatever the try block did
ReleaseInFinally(c, ok, throws) == resume[c] # {}

\* POST /api/run from the return of workerPool.submit on: the session
\* bookkeeping, the response, and the finally block. A waiter that the
\* release hands the lock to goes on to its submit.
RunSubmitSettles(c, ok, newSession, throws) ==
  /\ rpc[c] = "submitted"
  /\ rkind[c] = "run"
  /\ newSession => nextId <= NumSessions
  /\ rout' = [rout EXCEPT ![c] =
               IF ~ok THEN "failed"
               ELSE IF resume[c] # {} /\ throws THEN "threw"
               ELSE IF resume[c] = {} /\ newSession /\ LimitReached(rkey[c])
                 THEN "threw"
               ELSE "ok"]
  /\ IF ok /\ resume[c] # {} /\ ~throws
       THEN /\ rows' = [i \in SessionIds |->
                          IF i \in resume[c] /\ rows[i].present
                            THEN [rows[i] EXCEPT !.last_accessed_at = toISOString(now)]
                          ELSE rows[i]]
            /\ UNCHANGED nextId
     ELSE IF ok /\ resume[c] = {} /\ newSession /\ ~LimitReached(rkey[c])
       THEN /\ rows' = RowsAfterCreate(rkey[c])
            /\ nextId' = nextId + 1
     ELSE UNCHANGED <<rows, nextId>>
  /\ IF ReleaseInFinally(c, ok, throws)
       THEN /\ releaseLock(c)
            /\ releases' = [releases EXCEPT ![c] = @ + 1]
            /\ rpc' = [d \in Callers |->
                         IF d = c THEN "ended"
                         ELSE IF cpc[d] = "waiting" /\ cpc'[d] = "holding"
                           THEN "submitted"
                         ELSE rpc[d]]
     ELSE /\ rpc' = [rpc EXCEPT ![c] = "ended"]
          /\ UNCHANGED <<cpc, sessionQueues, grantedBy, grants, releases>>
  /\ ret' = IF rout'[c] = "ok"
              THEN [op |-> "POST /api/run", args |-> <<c>>,
                    value |-> [sessionId |->
                      IF resume[c] # {} THEN {ExternalId(i) : i \in resume[c]}
                      ELSE IF newSession THEN {ExternalId(nextId)}
                      ELSE {}]]
            ELSE NoCall
  /\ UNCHANGED <<now, csid, arrivedHeld, arrivals, rkind, rkey, resume, poolVars>>

\* POST /api/tasks: createTask, then executeTask up to `await
\* workerPool.submit`.
TaskRequest(c, sessionId, apiKey) ==
  /\ rpc[c] = "idle"
  /\ cpc[c] = "idle"
  /\ rkind' = [rkind EXCEPT ![c] = "task"]
  /\ rkey' = [rkey EXCEPT ![c] = apiKey]
  /\ resume' = [resume EXCEPT ![c] =
                  {id \in sessionId : getSession(id, apiKey) # Null}]
  /\ rpc' = [rpc EXCEPT ![c] = "submitted"]
  /\ ret' = NoCall
  /\ UNCHANGED <<now, nextId, rows, sessionQueues, cpc, csid, arrivedHeld,
                 grantedBy, arrivals, grants, releases, rout, poolVars>>

\* executeTask from the return of workerPool.submit on.
TaskSubmitSettles(c, ok, newSession) ==
  /\ rpc[c] = "submitted"
  /\ rkind[c] = "task"
  /\ newSession => nextId <= NumSessions
  /\ IF ok /\ newSession /\ ~LimitReached(rkey[c])
       THEN /\ rows' = RowsAfterCreate(rkey[c])
            /\ nextId' = nextId + 1
     ELSE UNCHANGED <<rows, nextId>>
  /\ rpc' = [rpc EXCEPT ![c] = "ended"]
  /\ rout' = [rout EXCEPT ![c] =
               IF ~ok THEN "failed"
               ELSE IF newSession /\ LimitReached(rkey[c]) THEN "threw"
               ELSE "ok"]
  /\ ret' = IF rout'[c] = "ok"
              THEN [op |-> "setCompleted", args |-> <<c>>,
                    value |-> [sessionId |->
                      IF newSession THEN {ExternalId(nextId)} ELSE {}]]
            ELSE NoCall
  /\ UNCHANGED <<now, sessionQueues, cpc, csid, arrivedHeld, grantedBy,
                 arrivals, grants, rkind, rkey, resume, releases, poolVars>>

\* POST /api/run as src/src/routes/api.ts has it, up to `await
\* workerPool.submit`: no session is looked up and no lock is taken.
PlainRunRequest(c, apiKey) ==
  /\ rpc[c] = "idle"
  /\ cpc[c] = "idle"
  /\ rkind' = [rkind EXCEPT ![c] = "plain"]
  /\ rkey' = [rkey EXCEPT ![c] = apiKey]
  /\ rpc' = [rpc EXCEPT ![c] = "submitted"]
  /\ ret' = NoCall
  /\ UNCHANGED <<now, nextId, rows, sessionQueues, cpc, csid, arrivedHeld,
                 grantedBy, arrivals, grants, resume, releases, rout, poolVars>>

\* RunResponse.sessionId: result.sessionId
IdInPlainResponse(c) == {UpstreamToken(c)}

\* POST /api/run as src/src/routes/api.ts has it, from the return of
\* workerPool.submit on: the response is built from the result as it is.
PlainRunSettles(c, ok, newSession) ==
  /\ rpc[c] = "submitted"
  /\ rkind[c] = "plain"
  /\ rpc' = [rpc EXCEPT ![c] = "ended"]
  /\ rout' = [rout EXCEPT ![c] = IF ok THEN "ok" ELSE "failed"]
  /\ ret' = IF ok
              THEN [op |-> "POST /api/run", args |-> <<c>>,
                    value |-> [sessionId |->
                      IF newSession THEN IdInPlainResponse(c) ELSE {}]]
            ELSE NoCall
  /\ UNCHANGED <<now, nextId, rows, sessionQueues, cpc, csid, arrivedHeld,
                 grantedBy, arrivals, grants, rkind, rkey, resume, releases,
                 poolVars>>

\* The requests of the routes on the session store.
RouteNext ==
  \/ \E c \in 1..NumRequests, f \in SessionIdFields, k \in ApiKeys : RunRequest(c, f, k)
  \/ \E c \in 1..NumRequests, ok, newSession, throws \in BOOLEAN :
       RunSubmitSettles(c, ok, newSession, throws)
  \/ \E c \in 1..NumRequests, f \in SessionIdFields, k \in ApiKeys : TaskRequest(c, f, k)
  \/ \E c \in 1..NumRequests, ok, newSession \in BOOLEAN :
       TaskSubmitSettles(c, ok, newSession)
  \/ \E c \in 1..NumRequests, k \in ApiKeys : PlainRunRequest(c, k)
  \/ \E c \in 1..NumRequests, ok, newSession \in BOOLEAN :
       PlainRunSettles(c, ok, newSession)
  \/ \E i \in SessionIds, k \in ApiKeys : DeleteSession(i, k)
  \/ CleanupExpiredSessions
  \/ Tick

\* The store with its callers: the sessions' operations, and the locks as
\* far as NumStoreCallers callers take and release them.
StoreNext ==
  \/ \E k \in ApiKeys : CreateSession(k)
  \/ \E i \in SessionIds, k \in ApiKeys : GetSession(i, k)
  \/ \E k \in ApiKeys : ListSessions(k)
  \/ \E i \in SessionIds : TouchSession(i)
  \/ \E c \in 1..NumStoreCallers, i \in SessionIds : AcquireLock(c, i)
  \/ \E c \in 1..NumStoreCallers : ReleaseLock(c)
  \/ \E i \in SessionIds, k \in ApiKeys : DeleteSession(i, k)
  \/ CleanupExpiredSessions
  \/ Tick


PoolInit ==
  /\ isShuttingDown = FALSE
  /\ isPaused = FALSE
  /\ queue = <<>>
  /\ pending = 0
  /\ shutdownPc = "idle"
  /\ shutdownCalls = 0
  /\ pc = [s \in Subs |-> "idle"]
  /\ stream = [s \in Subs |-> FALSE]
  /\ abortSignal = [s \in Subs |-> FALSE]
  /\ attempt = [s \in Subs |-> 0]
  /\ calls = [s \in Subs |-> 0]
  /\ lastError = [s \in Subs |-> NoOutcome]
  /\ onlyTimeouts = [s \in Subs |-> TRUE]
  /\ overdue = [s \in Subs |-> FALSE]
  /\ child = [s \in Subs |-> "none"]
  /\ killed = [s \in Subs |-> FALSE]
  /\ aborted = [s \in Subs |-> FALSE]
  /\ childKilled = [s \in Subs |-> FALSE]
  /\ timeoutMs = [s \in Subs |-> "none"]
  /\ grace = [s \in Subs |-> 0]
  /\ sigkill = [s \in Subs |-> FALSE]
  /\ elapsed = [s \in Subs |-> "none"]
  /\ orphans = [s \in Subs |-> 0]
  /\ tasks = [s \in Subs |-> NoTask]
  /\ runningTasks = {}
  /\ createThrows = [s \in Subs |-> FALSE]
  /\ cancelRet = <<>>
  /\ restarts = 0
  /\ run = NoRun
  /\ demux = NoDemux
  /\ mem = NoMem
  /\ result = [s \in Subs |-> NoOutcome]
  /\ faults = 0

RouteInit ==
  /\ rpc = [c \in Callers |-> "idle"]
  /\ rkind = [c \in Callers |-> "none"]
  /\ rkey = [c \in Callers |-> "none"]
  /\ resume = [c \in Callers |-> {}]
  /\ releases = [c \in Callers |-> 0]
  /\ rout = [c \in Callers |-> "none"]

Init == PoolInit /\ LockInit /\ RouteInit

Next ==
  \/ \E s \in Subs : Submit(s)
  \/ \E s \in Subs : Abort(s)
  \/ \E s \in Subs : BackoffElapsed(s)
  \/ \E s \in Subs : QueueDeadlinePasses(s)
  \/ \E s \in Subs : RunnerTimeout(s)
  \/ \E s \in Subs : GraceElapsed(s)
  \/ \E s \in Subs : ChildClose(s)
  \/ \E s \in Subs : SpawnError(s)
  \/ \E s \in Subs : CeilingPasses(s)
  \/ \E s \in Subs : PoolTimeout(s)
  \/ \E s \in Subs : OrphanExit(s)
  \/ Shutdown

Spec == Init /\ [][Next]_vars

\* The pool with NumLiveSubs submit() calls, where every child exits in the
\* end and every timer that is set fires.
LiveSubs == 1 .. NumLiveSubs

LiveNext ==
  \/ \E s \in LiveSubs : Submit(s)
  \/ \E s \in LiveSubs : Abort(s)
  \/ \E s \in LiveSubs : BackoffElapsed(s)
  \/ \E s \in LiveSubs : QueueDeadlinePasses(s)
  \/ \E s \in LiveSubs : RunnerTimeout(s)
  \/ \E s \in LiveSubs : GraceElapsed(s)
  \/ \E s \in LiveSubs : ChildClose(s)
  \/ \E s \in LiveSubs : SpawnError(s)
  \/ \E s \in LiveSubs : CeilingPasses(s)
  \/ \E s \in LiveSubs : PoolTimeout(s)
  \/ \E s \in LiveSubs : OrphanExit(s)
  \/ Shutdown

Fairness ==
  \A s \in LiveSubs :
    /\ WF_vars(ChildClose(s))
    /\ WF_vars(BackoffElapsed(s))
    /\ WF_vars(GraceElapsed(s))
    /\ WF_vars(OrphanExit(s))

LiveSpec == Init /\ [][LiveNext]_vars /\ Fairness

\* The pool under the tasks of POST /api/tasks.
TaskNext ==
  \/ \E s \in 1..NumTasks : SubmitTask(s)
  \/ \E s \in 1..NumTasks : CancelTask(s)
  \/ \E s \in 1..NumTasks : TaskExpires(s)
  \/ Restart
  \/ \E s \in Subs : BackoffElapsed(s)
  \/ \E s \in Subs : QueueDeadlinePasses(s)
  \/ \E s \in Subs : RunnerTimeout(s)
  \/ \E s \in Subs : GraceElapsed(s)
  \/ \E s \in Subs : ChildClose(s)
  \/ \E s \in Subs : SpawnError(s)
  \/ \E s \in Subs : CeilingPasses(s)
  \/ \E s \in Subs : PoolTimeout(s)
  \/ \E s \in Subs : OrphanExit(s)
  \/ Shutdown

TaskSpec == Init /\ [][TaskNext]_vars

\* One runClaude call, with every exit its child can make.
RunnerNext ==
  \/ RunClaude
  \/ RunAbortHandler
  \/ RunTimeoutFires
  \/ RunCloses

RunnerSpec == Init /\ [][RunnerNext]_vars

\* The stdout of one streaming run, with every way the pipe can cut it
\* into reads.
StreamNext ==
  \/ StdoutData
  \/ StdoutCloses

StreamSpec == Init /\ [][StreamNext]_vars

MemLockSpec == Init /\ [][MemLockNext]_vars /\ MemFairness

LockSpec == Init /\ [][LockNext]_vars

StoreSpec == Init /\ [][StoreNext]_vars

RouteSpec == Init /\ [][RouteNext]_vars

RECURSIVE SumOver(_, _)
SumOver(f, S) ==
  IF S = {} THEN 0
  ELSE LET x == CHOOSE y \in S : TRUE IN f[x] + SumOver(f, S \ {x})

\* The children the pool has started that have not exited.
LiveChildren ==
  Cardinality({s \in Subs : child[s] # "none"}) + SumOver(orphans, Subs)

\* ================================================================= claims
ErrorValues ==
  {ApiError(c, "") : c \in ErrorCodes} \cup {RawError("ECONNRESET"), RawError("other")}

\* The errors submit() throws for an abort.
IsAbortedError(e) ==
  /\ e.api /\ e.code = "cli_error"
  /\ e.reason \in {"aborted", "aborted_during_retry", "aborted_before_start",
                   "client_disconnect"}

IsShutdownError(e) == e = ApiError("cli_error", "shutdown")

\* In this step an attempt of s (an executeWithQueue call) has settled.
AttemptSettles(s) ==
  /\ pc[s] \in {"queued", "running"} \/ calls'[s] > calls[s]
  /\ pc'[s] \in {"backoff", "done"}

\* C1: the children started by the pool and not yet exited never number more
\* than workerConcurrency.
C1_BoundedConcurrency == LiveChildren <= Concurrency

\* C2: at most one caller holds the lock of a session id at any time.
C2_MutualExclusion ==
  \A i \in SessionIds :
    Cardinality({c \in Callers : cpc[c] = "holding" /\ csid[c] = i}) <= 1

C4_LockFifo ==
  /\ \A c \in Callers :
       arrivedHeld[c] /\ cpc[c] \in {"holding", "released"} =>
         grantedBy[c] = "releaseLock"
  /\ \A i \in SessionIds :
       /\ Len(grants[i]) <= Len(arrivals[i])
       /\ \A n \in 1..Len(grants[i]) : grants[i][n] = arrivals[i][n]

\* C5: a non-streaming submit whose attempts all fail with timeout, and
\* whose abort signal does not fire, makes exactly 3 attempts and throws the
\* timeout of the last one; it does not sleep after the third attempt.
C5_RetryBudget ==
  \A s \in Subs :
    /\ calls[s] <= RETRY_MAX_ATTEMPTS
    /\ pc[s] = "backoff" => calls[s] < RETRY_MAX_ATTEMPTS
    /\ (pc[s] = "done" /\ ~stream[s] /\ ~abortSignal[s] /\ calls[s] >= 1
        /\ onlyTimeouts[s])
         => /\ calls[s] = RETRY_MAX_ATTEMPTS
            /\ result[s].api /\ result[s].code = "timeout"
            /\ result[s] = lastError[s]

C5_Witness ==
  \E s \in Subs :
    /\ pc[s] = "done" /\ ~stream[s] /\ ~abortSignal[s] /\ onlyTimeouts[s]
    /\ calls[s] = RETRY_MAX_ATTEMPTS
    /\ result[s].code = "timeout"

\* The retryable errors, as the claim lists them.
C6_Retryable(e) ==
  \/ e.api /\ e.code \in {"timeout", "rate_limit"}
  \/ ~e.api /\ ~e.ok /\ e.reason = "ECONNRESET"

\* C6: in a non-streaming submit a failed attempt is followed by a sleep and
\* a further attempt iff its error is timeout, rate_limit or ECONNRESET and
\* fewer than 3 attempts have been made; any other error is thrown as it is,
\* at once; a success is returned whatever failed before it.
C6_RetryDecision ==
  /\ [](\A e \in ErrorValues : isRetryableError(e) = C6_Retryable(e))
  /\ [][\A s \in Subs :
          /\ (AttemptSettles(s) /\ ~stream'[s]
              /\ ~(pc'[s] = "done" /\ result'[s].ok))
               => /\ pc'[s] = "backoff"
                     <=> (C6_Retryable(lastError'[s])
                          /\ calls'[s] < RETRY_MAX_ATTEMPTS)
                  /\ pc'[s] = "done" => result'[s] = lastError'[s]
          /\ (pc[s] = "backoff" /\ pc'[s] # "backoff" /\ ~abortSignal'[s])
               => calls'[s] = calls[s] + 1]_vars

C6_Witness ==
  \E s \in Subs :
    /\ pc[s] = "done" /\ result[s].ok /\ calls[s] = 2
    /\ lastError[s] = ApiError("rate_limit", "")

\* C7: a streaming submit makes one attempt whatever that attempt fails
\* with, and returns its outcome.
C7_NoRetryOnStreaming ==
  /\ [](\A s \in Subs : stream[s] => calls[s] <= 1 /\ pc[s] # "backoff")
  /\ [][\A s \in Subs :
          (AttemptSettles(s) /\ stream'[s]) => pc'[s] = "done"]_vars

C7_Witness ==
  \E s \in Subs :
    /\ pc[s] = "done" /\ stream[s] /\ calls[s] = 1
    /\ result[s].api /\ result[s].code = "timeout"

\* C8: once the abort signal of a non-streaming submit has fired no further
\* attempt is started, and the submit throws cli_error (aborted).
C8_AbortStopsRetry ==
  /\ [](\A s \in Subs :
          (pc[s] = "done" /\ ~stream[s] /\ abortSignal[s])
            => IsAbortedError(result[s]))
  /\ [][\A s \in Subs : abortSignal[s] => calls'[s] <= calls[s]]_vars

\* C9: a submission whose abort signal fired before it returned throws
\* cli_error (aborted).
C9_CancelResolvesAborted ==
  \A s \in Subs :
    (pc[s] = "done" /\ abortSignal[s]) => IsAbortedError(result[s])

\* C10: once the abort signal has fired and the submission has returned, no
\* child that the submission spawned is alive.
C10_CancelCompleteness ==
  \A s \in Subs :
    (pc[s] = "done" /\ abortSignal[s]) => child[s] = "none" /\ orphans[s] = 0

\* C11: when the runner's timeout (or the abort signal) fires, SIGTERM is sent
\* to the child and a grace timer is armed; when a grace timer fires and the
\* child has not exited, SIGKILL is sent.
C11_SignalEscalation ==
  [][\A s \in Subs :
       /\ (pc[s] = "running" /\ ~killed[s] /\ killed'[s])
            => childKilled'[s] /\ grace'[s] = grace[s] + 1
       /\ (pc[s] = "running" /\ ~aborted[s] /\ aborted'[s])
            => childKilled'[s] /\ grace'[s] = grace[s] + 1
       /\ (pc[s] = "running" /\ pc'[s] = "running" /\ child'[s] = "alive"
           /\ grace'[s] < grace[s])
            => sigkill'[s]]_vars

\* C12: isShuttingDown, once true, stays true; a submit() call made after
\* shutdown() throws cli_error (shutdown) and neither enqueues nor spawns; a
\* second shutdown() call leaves the pool as it is.
C12_ShutdownIdempotent ==
  /\ [](\A s \in Subs : IsShutdownError(result[s]) => isShuttingDown)
  /\ [][/\ isShuttingDown => isShuttingDown'
        /\ \A s \in Subs :
             (isShuttingDown /\ pc[s] = "idle" /\ pc'[s] # "idle")
               => /\ pc'[s] = "done" /\ IsShutdownError(result'[s])
                  /\ calls'[s] = 0
                  /\ queue' = queue /\ pending' = pending /\ child' = child
        /\ (isShuttingDown /\ shutdownCalls' # shutdownCalls)
             => /\ <<isShuttingDown, isPaused, queue, pending, shutdownPc>>' =
                     <<isShuttingDown, isPaused, queue, pending, shutdownPc>>
                /\ <<child, orphans, overdue, killed, aborted>>' =
                     <<child, orphans, overdue, killed, aborted>>
                /\ \A s \in Subs : pc[s] # "done" => pc'[s] = pc[s]]_vars

C12_Witness ==
  /\ shutdownCalls = 2
  /\ \E s \in Subs : pc[s] = "done" /\ IsShutdownError(result[s])

\* C13: once shutdown() has been called no job is started and no child is
\* spawned, also not by a submit() call that slept in its backoff; and
\* shutdown() returns only when no executor is in flight: no job is running
\* and no child the pool spawned is alive.
C13_ShutdownDrain ==
  /\ [][isShuttingDown' =>
          \A s \in Subs : /\ child'[s] = "alive" => child[s] = "alive"
                          /\ pc'[s] = "running" => pc[s] = "running"
                          /\ orphans'[s] <= orphans[s] + 1]_vars
  /\ [](shutdownPc = "done" => pending = 0 /\ LiveChildren = 0)

\* C14: a submit() call made while the pool is open starts at once when
\* fewer than workerConcurrency jobs run; waits in the queue when
\* workerConcurrency jobs run and fewer than maxQueueSize wait; and is
\* rejected with queue_full, without the runner being called, when
\* maxQueueSize wait. So of calls made back to back the first c run, the
\* next m wait and the next one is rejected.
C14_QueueFullScenario ==
  [][\A s \in Subs :
       (pc[s] = "idle" /\ pc'[s] # "idle" /\ ~isShuttingDown) =>
         /\ calls'[s] = 1
         /\ (pending < Concurrency /\ queue = <<>>)
              => /\ pc'[s] = "running" /\ child'[s] = "alive"
                 /\ pending' = pending + 1 /\ queue' = queue
         /\ (pending = Concurrency /\ Len(queue) < MaxQueueSize)
              => /\ pc'[s] = "queued" /\ child'[s] = "none"
                 /\ pending' = pending /\ queue' = Append(queue, s)
         /\ Len(queue) = MaxQueueSize
              => /\ pc'[s] = "done" /\ result'[s] = ApiError("queue_full", "")
                 /\ child' = child /\ pending' = pending /\ queue' = queue]_vars

C14_Witness ==
  /\ faults = 0
  /\ \A s \in 1..Concurrency : pc[s] = "running" /\ child[s] = "alive"
  /\ \A s \in (Concurrency + 1)..(Concurrency + MaxQueueSize) : pc[s] = "queued"
  /\ \E s \in Subs :
       /\ s = Concurrency + MaxQueueSize + 1
       /\ pc[s] = "done" /\ result[s] = ApiError("queue_full", "")
       /\ child[s] = "none" /\ calls[s] = 1

C16_AbsoluteCeiling ==
  /\ [](\A s \in Subs : pc[s] \in {"queued", "running"} => elapsed[s] # "over")
  /\ [][\A s \in Subs :
          orphans'[s] > orphans[s]
            => \/ pc'[s] = "done" /\ result'[s].api /\ result'[s].code = "timeout"
               \/ pc'[s] = "backoff" /\ lastError'[s].api
                    /\ lastError'[s].code = "timeout"]_vars

\* C17: getSession(id, key) returns the session of that id iff a session
\* with that id exists and its api_key_hash is hashApiKey(key), and null for
\* a wrong key as for a missing id; listSessions(key) returns exactly the
\* sessions whose api_key_hash is hashApiKey(key).
C17_OwnershipIsolation ==
  /\ ret.op = "getSession" =>
       LET id == ret.args[1]
           owned == rows[id].present
                      /\ rows[id].api_key_hash = hashApiKey(ret.args[2])
       IN /\ owned => /\ ret.value # Null
                      /\ ret.value.id = id
                      /\ ret.value.apiKeyHash = hashApiKey(ret.args[2])
          /\ ~owned => ret.value = Null
  /\ ret.op = "listSessions" =>
       {e.id : e \in ret.value}
         = {i \in SessionIds : rows[i].present
              /\ rows[i].api_key_hash = hashApiKey(ret.args[1])}

\* getSession was called with the key of another owner, after a session was
\* deleted or swept.
C17_Witness ==
  /\ ret.op = "getSession"
  /\ rows[ret.args[1]].present
  /\ rows[ret.args[1]].api_key_hash # hashApiKey(ret.args[2])
  /\ ret.value = Null
  /\ \E i \in SessionIds : ~rows[i].present /\ i < nextId

\* C18: deleteSession(id, key) returns true and removes the session iff the
\* session exists and is owned by key, leaving the other sessions alone; for
\* a wrong key or an unknown id it returns false and changes no session and
\* no lock entry.
C18_DeleteOwnerScoped ==
  [][ret'.op = "deleteSession" =>
       LET id == ret'.args[1]
           owned == rows[id].present
                      /\ rows[id].api_key_hash = hashApiKey(ret'.args[2])
       IN /\ ret'.value = owned
          /\ owned => /\ ~rows'[id].present
                      /\ \A j \in SessionIds \ {id} : rows'[j] = rows[j]
          /\ ~owned => rows' = rows /\ sessionQueues' = sessionQueues]_vars

\* deleteSession with the key of another owner returned false for a session
\* that exists and is locked.
C18_Witness ==
  /\ ret.op = "deleteSession"
  /\ ret.value = FALSE
  /\ rows[ret.args[1]].present
  /\ rows[ret.args[1]].api_key_hash # hashApiKey(ret.args[2])
  /\ sessionQueues[ret.args[1]] # NoQueue

\* C19: createSession throws session_limit_reached and inserts nothing when
\* the owner holds maxSessionsPerKey sessions already, and otherwise inserts
\* one session of the owner, whatever the other owners hold; so no owner ever
\* holds more than maxSessionsPerKey sessions.
C19_SessionQuota ==
  /\ [](\A k \in ApiKeys : CountByApiKey(hashApiKey(k)) <= MaxSessionsPerKey)
  /\ [][ret'.op = "createSession" =>
          LET h == hashApiKey(ret'.args[1])
              held == Cardinality({i \in SessionIds :
                                     rows[i].present /\ rows[i].api_key_hash = h})
          IN IF held >= MaxSessionsPerKey
               THEN /\ ret'.value = ApiError("session_limit_reached", "")
                    /\ rows' = rows
             ELSE /\ ret'.value \notin {ApiError("session_limit_reached", "")}
                  /\ ~rows[ret'.value.id].present
                  /\ rows'[ret'.value.id].present
                  /\ rows'[ret'.value.id].api_key_hash = h
                  /\ \A j \in SessionIds \ {ret'.value.id} : rows'[j] = rows[j]]_vars

\* An owner holding maxSessionsPerKey sessions was refused, while another
\* owner holds a session as well.
C19_Witness ==
  /\ ret.op = "createSession"
  /\ ret.value = ApiError("session_limit_reached", "")
  /\ CountByApiKey(hashApiKey(ret.args[1])) = MaxSessionsPerKey
  /\ \E k \in ApiKeys \ {ret.args[1]} : CountByApiKey(hashApiKey(k)) > 0

\* C20: a sweep removes every session last accessed more than sessionTTL
\* before the sweep, and leaves every session with now - lastAccessedAt <=
\* sessionTTL present and unchanged.
C20_TtlSweep ==
  [][ret'.op = "cleanupExpiredSessions" =>
       \A i \in SessionIds :
         IF rows[i].present
           THEN IF now - parseDate(rows[i].last_accessed_at) > SessionTtl
                  THEN ~rows'[i].present
                ELSE rows'[i] = rows[i]
         ELSE ~rows'[i].present]_vars

\* A sweep has run that found a session at exactly sessionTTL, which it
\* kept, and an older one, which is gone.
C20_Witness ==
  /\ ret.op = "cleanupExpiredSessions"
  /\ \E i \in SessionIds :
       rows[i].present /\ now - parseDate(rows[i].last_accessed_at) = SessionTtl
  /\ \E i \in SessionIds : ~rows[i].present /\ i < nextId

\* C21: a sweep that deletes a session removes the lock entry of its id as
\* well, and after every sweep every id in the lock table is the id of a
\* stored session.
C21_SweepPurgesLocks ==
  [][ret'.op = "cleanupExpiredSessions" =>
       /\ \A i \in SessionIds :
            rows[i].present /\ ~rows'[i].present => sessionQueues'[i] = NoQueue
       /\ {i \in SessionIds : sessionQueues'[i] # NoQueue}
            \subseteq {i \in SessionIds : rows'[i].present}]_vars

\* C22: a stored session has a lock entry, and reports locked, iff some
\* caller has acquired its lock and not released it yet; getStats counts as
\* locked the sessions so held.
C22_LockLifecycle ==
  /\ \A i \in SessionIds :
       rows[i].present =>
         (rowToSession(i).locked
            <=> \E c \in Callers : cpc[c] = "holding" /\ csid[c] = i)
  /\ (\A i \in SessionIds : sessionQueues[i] # NoQueue => rows[i].present)
       => getStats.lockedSessions
            = Cardinality({i \in SessionIds :
                             /\ rows[i].present
                             /\ \E c \in Callers :
                                  cpc[c] = "holding" /\ csid[c] = i})

\* C23: an execution that resumes a session is submitted only by a request
\* that holds the lock of that session, so no two executions resuming the
\* same session are submitted or running at the same time.
C23_SessionSerialized ==
  /\ \A c \in Callers :
       rpc[c] = "submitted" =>
         \A i \in resume[c] : cpc[c] = "holding" /\ csid[c] = i
  /\ \A c, d \in Callers :
       c # d /\ rpc[c] = "submitted" /\ rpc[d] = "submitted"
         => resume[c] \cap resume[d] = {}

\* C24: a POST /api/run request that acquired a session lock calls
\* releaseLock exactly once, as its handler ends, whatever the submission
\* or the bookkeeping after it did; a request that has ended holds no lock.
C24_LockReleased ==
  /\ [](\A c \in Callers :
          rkind[c] = "run" =>
            /\ rpc[c] = "ended" =>
                 /\ cpc[c] \notin {"holding", "waiting"}
                 /\ releases[c] = IF cpc[c] = "released" THEN 1 ELSE 0
            /\ rpc[c] # "ended" => releases[c] = 0)
  /\ [][\A c \in Callers :
          releases'[c] # releases[c] =>
            rpc[c] = "submitted" /\ rpc'[c] = "ended" /\ cpc[c] = "holding"]_vars

\* A request that held a session lock has ended after the code that follows
\* a successful run threw, and the lock entry of its session is gone.
C24_Witness ==
  \E c \in Callers :
    /\ rkind[c] = "run" /\ rpc[c] = "ended" /\ rout[c] = "threw"
    /\ cpc[c] = "released" /\ releases[c] = 1
    /\ rows[csid[c]].present /\ sessionQueues[csid[c]] = NoQueue

\* C25: when markOrphanedTasksFailed has run at a start of the process, no
\* task row is running; every row that was running is failed with reason
\* server_restart and has completed_at set, and the other rows are as they
\* were.
C25_OrphanRecovery ==
  [][restarts' # restarts =>
       \A s \in Subs :
         /\ tasks'[s].status # "running"
         /\ IF tasks[s].status = "running"
              THEN tasks'[s] = [status |-> "failed",
                                failure_reason |-> "server_restart",
                                completed_at |-> "set"]
            ELSE tasks'[s] = tasks[s]]_vars

\* The process was started again while one task was running and another
\* had completed.
C25_Witness ==
  /\ restarts > 0
  /\ \E s \in Subs : tasks[s].failure_reason = "server_restart"
  /\ \E s \in Subs : tasks[s].status = "completed"

\* C26: a task row that is running has no completed_at, and a row that is
\* completed or failed has one, whichever of createTask, setCompleted,
\* setFailed, cancelTask and markOrphanedTasksFailed wrote it.
C26_TaskTimestamps ==
  \A s \in Subs :
    /\ tasks[s].status = "running" => tasks[s].completed_at = "null"
    /\ tasks[s].status \in {"completed", "failed"} =>
         tasks[s].completed_at = "set"

\* One task completed and another failed on an error of its run.
C26_Witness ==
  \E s, u \in Subs :
    /\ tasks[s].status = "completed"
    /\ tasks[u].status = "failed" /\ tasks[u].failure_reason = "error"

\* C27: cancelTask(id) on a running task fires its abort signal, writes the
\* row as failed with reason cancelled and returns true; for an id that is
\* unknown or already terminal it returns false, changes no row and fires
\* no abort signal.
C27_TaskCancel ==
  [][cancelRet' # <<>> =>
       LET s == cancelRet'[1]
       IN  IF tasks[s].status = "running"
             THEN /\ cancelRet'[2] = TRUE
                  /\ abortSignal'[s]
                  /\ tasks'[s] = [status |-> "failed",
                                  failure_reason |-> "cancelled",
                                  completed_at |-> "set"]
           ELSE /\ cancelRet'[2] = FALSE
                /\ tasks' = tasks
                /\ \A u \in Subs : abortSignal'[u] => abortSignal[u]]_vars

\* cancelTask has just returned true for a task.
C27_Witness ==
  \E s \in Subs : cancelRet = <<s, TRUE>> /\ tasks[s].status = "failed"

\* C28: once a task is cancelled its executor writes nothing more: the row
\* stays failed with reason cancelled until the cleanup deletes it, and is
\* never completed nor failed with an error of the run.
C28_CancelledStaysCancelled ==
  /\ [](\A s \in Subs :
          tasks[s].failure_reason = "cancelled" => tasks[s].status = "failed")
  /\ [][\A s \in Subs :
          tasks[s].failure_reason = "cancelled" =>
            \/ tasks'[s] = tasks[s]
            \/ tasks'[s].status = "deleted"]_vars

\* The submit call of a cancelled task has settled, and the row still says
\* cancelled.
C28_Witness ==
  \E s \in Subs :
    /\ pc[s] = "done"
    /\ abortSignal[s]
    /\ tasks[s].failure_reason = "cancelled"

\* C29: when the child has exited, the outcome of the run is the first case
\* that matches: aborted gives cli_error (client_disconnect); killed by the
\* timeout timer gives timeout; exit code 0 gives what parsing stdout gives;
\* a non-zero code gives rate_limit, upstream_auth_error or memory_error by
\* the first class of patterns stderr contains in whatever case, and
\* cli_error otherwise.
C29_ExitClassification ==
  run.pc = "settled" =>
    LET has(patterns) == \E ph \in run.stderr : ph.pattern \in patterns
    IN  IF run.aborted
          THEN run.outcome = ApiError("cli_error", "client_disconnect")
        ELSE IF run.killed
          THEN run.outcome = ApiError("timeout", "request")
        ELSE IF run.code = 0
          THEN \/ run.outcome.ok
               \/ run.outcome = ApiError("cli_error", "parse")
        ELSE IF has({"rate limit", "too many requests"})
          THEN run.outcome = ApiError("rate_limit", "")
        ELSE IF has({"authentication", "not logged in", "login"})
          THEN run.outcome = ApiError("upstream_auth_error", "")
        ELSE IF has({"out of memory", "heap limit", "allocation failed"})
          THEN run.outcome = ApiError("memory_error", "")
        ELSE run.outcome = ApiError("cli_error", "exit")

\* A child that was neither aborted nor killed exited non-zero, with a
\* memory pattern and an authentication pattern on stderr, both in capitals.
C29_Witness ==
  /\ run.pc = "settled"
  /\ ~run.aborted /\ ~run.killed /\ run.code # 0
  /\ [pattern |-> "heap limit", shouted |-> TRUE] \in run.stderr
  /\ [pattern |-> "login", shouted |-> TRUE] \in run.stderr
  /\ run.outcome.code = "upstream_auth_error"

\* C30: when the child exits 0 and its stdout is a JSON object with
\* is_error true, the run fails with cli_error and never gives a result.
C30_CliReportedError ==
  ( /\ run.pc = "settled"
    /\ ~run.aborted /\ ~run.killed
    /\ run.code = 0
    /\ run.stdout = "json_is_error" )
  => /\ ~run.outcome.ok
     /\ run.outcome.api /\ run.outcome.code = "cli_error"

C32_StreamingOrder ==
  LET whole == split(toString(demux.bytes))
      inOrder == chunksOfLines(SubSeq(whole, 1, Len(whole) - 1))
      n == Len(demux.chunks)
  IN  /\ n = Len(inOrder)
      /\ \A i \in 1 .. n : demux.chunks[i].type = inOrder[i].type
      /\ \A i, j \in 1 .. n :
           i < j /\ demux.chunks[i].type = "message_end"
             => demux.chunks[j].type # "content_block_delta"
      /\ demux.pc = "closed" /\ n > 0
           => demux.chunks[n].type = "message_end"

\* C34: the chunks given to onChunk depend only on the bytes of stdout
\* read so far and not on where the reads cut them: they are the chunks of
\* the complete lines, each given once, with the lines that do not parse
\* skipped and the fragment after the last newline held back.
C34_LineReassembly ==
  LET whole == split(toString(demux.bytes))
  IN  demux.chunks = chunksOfLines(SubSeq(whole, 1, Len(whole) - 1))

\* C33: no sessionId that a response of POST /api/run or the row of a
\* completed task carries is the session token of the CLI; it is an id the
\* store made.
C33_TokenConfidential ==
  ret.op \in {"POST /api/run", "setCompleted"} =>
    \A v \in ret.value.sessionId : v \notin UpstreamTokens /\ v[1] = "external"

\* C35: where every child exits and every timer fires, every submit() call
\* returns or throws in the end, also one that waits in the queue or sleeps
\* in the retry backoff when shutdown() is called.
C35_SubmissionLiveness ==
  \A s \in LiveSubs :
    (pc[s] \in {"queued", "running", "backoff", "cleared"})
      ~> (pc[s] \in {"done", "returned"})

\* C36: the running count of the pool is the number of attempts whose body
\* has started and not ended, the queued count the number of attempts that
\* wait; a submission in the retry backoff holds no slot and no place in
\* the queue; and with no attempt waiting or executing both counts are 0.
C36_NoSlotLeak ==
  LET RECURSIVE Orphans(_)
      Orphans(n) == IF n = 0 THEN 0 ELSE orphans[n] + Orphans(n - 1)
      running == {s \in Subs : pc[s] = "running"}
      waiting == {s \in Subs : pc[s] = "queued"}
      inQueue == {queue[i] : i \in 1 .. Len(queue)}
  IN  /\ pending = Cardinality(running) + Orphans(NumSubs)
      /\ Len(queue) = Cardinality(waiting)
      /\ \A s \in Subs : pc[s] = "backoff" => s \notin inQueue
      /\ running = {} /\ Orphans(NumSubs) = 0 /\ waiting = {}
           => pending = 0 /\ queue = <<>>

\* C37: once the row of a task is completed or failed, nothing changes it
\* any more, whether the executor ends, cancelTask is called or the process
\* is started again; the retention sweep can still delete it.
C37_TerminalAbsorbing ==
  [][\A s \in Subs :
       tasks[s].status \in {"completed", "failed"} =>
         \/ tasks'[s] = tasks[s]
         \/ tasks'[s].status = "deleted"]_vars

\* cancelTask was called for a completed task and returned false, and the
\* row is still completed.
C37_Witness ==
  \E s \in Subs : cancelRet = <<s, FALSE>> /\ tasks[s].status = "completed"

\* C38: a task id has a registered abort controller exactly when its row
\* is running, after any createTask, setCompleted, setFailed, cancelTask and
\* retention sweep; and the sweep deletes no running row.
C38_ControllersMatchRunning ==
  /\ [](\A s \in Subs : s \in runningTasks <=> tasks[s].status = "running")
  /\ [][\A s \in Subs :
          tasks'[s].status = "deleted" /\ tasks[s].status # "deleted"
            => tasks[s].status \in {"completed", "failed"}]_vars

\* One task runs and has its controller while the row of another has been
\* swept.
C38_Witness ==
  \E s, u \in Subs :
    /\ s \in runningTasks /\ tasks[s].status = "running"
    /\ u \notin runningTasks /\ tasks[u].status = "deleted"

\* C39 (no stranded lock waiters): in the in-memory store, with every holder
\* releasing in the end, a caller suspended in acquireLock is eventually
\* resumed or failed, also when its session is removed by deleteSession or
\* by the cleanup timer while it waits.
C39_NoStrandedWaiters ==
  \A c \in Callers : (mem.cpc[c] = "waiting") ~> (mem.cpc[c] # "waiting")

====
